---------------------------- MODULE Spec2Model ----------------------------
(***************************************************************************)
(* Model of the strategy numeric engine of carbon-sdk (strategy-management *)
(* utils): rate normalisation, buildStrategyObject / createOrders,         *)
(* parseStrategy, addFee / subtractFee and                                 *)
(* calculateOverlappingDistribution.                                       *)
(*                                                                         *)
(* Decimal values are modelled as exact signed rationals with a signed     *)
(* zero and the special values NaN and +/-Infinity: addition, subtraction, *)
(* multiplication, division and comparison are exact, a division by zero  *)
(* gives NaN or an Infinity.  A decimal string and the Decimal it parses   *)
(* to are the same value of the model.                                     *)
(***************************************************************************)
EXTENDS Integers, Sequences, FiniteSets, TLC

VARIABLES pc, args, strategy, lookups, decimals0, decimals1, parsed, cur, ops, dist

vars == <<pc, args, strategy, lookups, decimals0, decimals1, parsed, cur, ops, dist>>

(***************************************************************************)
(* Bounds of the model.                                                    *)
(***************************************************************************)
\* prices of the order builder are n/2 for n in -1..MaxPriceNum
MaxPriceNum == 2
\* budgets of the order builder are n/2 for n in -1..MaxBudgetNum
MaxBudgetNum == 1
\* token decimals range over 0..MaxDecimals
MaxDecimals == 1
\* fee amounts range over 0..MaxAmount
MaxAmount == 1000
\* number of fee operations composed on one amount
MaxOps == 2
\* number of gross amounts below addFee's result that are compared with it
GWindow == 1200
\* outer prices and market price of the distribution solver are 0..MaxOuterPrice
MaxOuterPrice == 4
\* buy budgets of the distribution solver are 0..MaxSolverBudget
MaxSolverBudget == 1
\* fractional decimal digits kept by the model of Decimal.sqrt
SqrtDigits == 2

(***************************************************************************)
(* Integer helpers.                                                        *)
(***************************************************************************)
Abs(i) == IF i < 0 THEN -i ELSE i

RECURSIVE GCD(_, _)
GCD(a, b) == IF b = 0 THEN a ELSE GCD(b, a % b)

RECURSIVE Pow10(_)
Pow10(k) == IF k = 0 THEN 1 ELSE 10 * Pow10(k - 1)

\* floor of the square root of a natural number
RECURSIVE ISqrtBetween(_, _, _)
ISqrtBetween(v, lo, hi) ==
  IF lo = hi THEN lo
  ELSE LET mid == (lo + hi + 1) \div 2
       IN IF mid * mid <= v THEN ISqrtBetween(v, mid, hi) ELSE ISqrtBetween(v, lo, mid - 1)

ISqrt(v) == ISqrtBetween(v, 0, IF v > 46340 THEN 46340 ELSE v)

(***************************************************************************)
(* Decimal: [k, s, n, d] with k the kind, s the sign (1 or -1), and n/d    *)
(* the magnitude in lowest terms (n = 0, d = 1 for zero, NaN, Infinity).   *)
(***************************************************************************)
NaN == [k |-> "nan", s |-> 1, n |-> 0, d |-> 1]

Inf(s) == [k |-> "inf", s |-> s, n |-> 0, d |-> 1]

Fin(s, n, d) ==
  IF n = 0 THEN [k |-> "fin", s |-> s, n |-> 0, d |-> 1]
  ELSE LET g == GCD(n, d) IN [k |-> "fin", s |-> s, n |-> n \div g, d |-> d \div g]

\* new Decimal(i) for an integer i
FromInt(i) == Fin(IF i < 0 THEN -1 ELSE 1, Abs(i), 1)

\* new Decimal("a/b" written as a decimal string), b > 0
FromFrac(a, b) == Fin(IF a < 0 THEN -1 ELSE 1, Abs(a), b)

IsZero(x) == x.k = "fin" /\ x.n = 0

\* Decimal.isNegative: the sign of the value is negative
isNegative(x) == x.k # "nan" /\ x.s < 0

DecNeg(x) == IF x.k = "nan" THEN NaN ELSE [x EXCEPT !.s = -x.s]

\* Decimal.times
DecTimes(x, y) ==
  IF x.k = "nan" \/ y.k = "nan" THEN NaN
  ELSE IF x.k = "inf" \/ y.k = "inf"
       THEN IF IsZero(x) \/ IsZero(y) THEN NaN ELSE Inf(x.s * y.s)
       ELSE Fin(x.s * y.s, x.n * y.n, x.d * y.d)

\* Decimal.div: a zero divisor gives NaN (0/0) or a signed Infinity, never an exception
DecDiv(x, y) ==
  IF x.k = "nan" \/ y.k = "nan" THEN NaN
  ELSE IF x.k = "inf"
       THEN IF y.k = "inf" THEN NaN ELSE Inf(x.s * y.s)
       ELSE IF y.k = "inf" THEN Fin(x.s * y.s, 0, 1)
       ELSE IF y.n = 0
            THEN IF x.n = 0 THEN NaN ELSE Inf(x.s * y.s)
            ELSE Fin(x.s * y.s, x.n * y.d, x.d * y.n)

\* Decimal.plus
DecPlus(x, y) ==
  IF x.k = "nan" \/ y.k = "nan" THEN NaN
  ELSE IF x.k = "inf"
       THEN IF y.k = "inf" /\ y.s # x.s THEN NaN ELSE x
       ELSE IF y.k = "inf" THEN y
       ELSE LET num == x.s * x.n * y.d + y.s * y.n * x.d
            IN IF num = 0
               THEN Fin(IF x.s < 0 /\ y.s < 0 THEN -1 ELSE 1, 0, 1)
               ELSE Fin(IF num < 0 THEN -1 ELSE 1, Abs(num), x.d * y.d)

\* Decimal.minus
DecMinus(x, y) == DecPlus(x, DecNeg(y))

\* numeric order of two Decimals; NaN compares false with everything
DecLt(x, y) ==
  IF x.k = "nan" \/ y.k = "nan" THEN FALSE
  ELSE IF x.k = "inf" THEN x.s < 0 /\ ~(y.k = "inf" /\ y.s < 0)
  ELSE IF y.k = "inf" THEN y.s > 0
  ELSE x.s * x.n * y.d < y.s * y.n * x.d

\* Decimal.gt
DecGt(x, y) == DecLt(y, x)

DecEq(x, y) ==
  /\ x.k # "nan"
  /\ y.k # "nan"
  /\ IF x.k = "inf" \/ y.k = "inf" THEN x.k = y.k /\ x.s = y.s
     ELSE x.s * x.n * y.d = y.s * y.n * x.d

DecLeq(x, y) == DecLt(x, y) \/ DecEq(x, y)

\* Decimal.sqrt, kept to SqrtDigits fractional digits
DecSqrt(x) ==
  IF x.k = "nan" THEN NaN
  ELSE IF x.n = 0 /\ x.k = "fin" THEN x
  ELSE IF x.s < 0 THEN NaN
  ELSE IF x.k = "inf" THEN x
  ELSE LET sc == Pow10(SqrtDigits)
       IN Fin(1, ISqrt((x.n * sc * sc) \div x.d), sc)

Zero == FromInt(0)

One == FromInt(1)

(***************************************************************************)
(* utils/numerics helpers used by the strategy utils.                      *)
(***************************************************************************)
\* tenPow(dec0, dec1) = 10^(dec0 - dec1)
tenPow(dec0, dec1) ==
  IF dec0 >= dec1 THEN Fin(1, Pow10(dec0 - dec1), 1) ELSE Fin(1, 1, Pow10(dec1 - dec0))

\* trimDecimal(x, decimals): the decimal string cut after `decimals` fractional digits
trimDecimal(x, decimals) ==
  IF x.k # "fin" THEN x
  ELSE Fin(x.s, (x.n * Pow10(decimals)) \div x.d, Pow10(decimals))

\* parseUnits(amount, decimals): amount in base units, an integer; excess digits are cut
parseUnits(amount, decimals) ==
  LET t == trimDecimal(amount, decimals) IN t.s * ((t.n * Pow10(decimals)) \div t.d)

\* formatUnits(amount, decimals): base units back to a decimal amount
formatUnits(amount, decimals) ==
  Fin(IF amount < 0 THEN -1 ELSE 1, Abs(amount), Pow10(decimals))

(***************************************************************************)
(* Fee calculator.                                                         *)
(***************************************************************************)
PPM_RESOLUTION == 1000000

\* Decimal.ceil
DecCeil(x) ==
  IF x.k # "fin" THEN x
  ELSE IF x.s > 0 THEN Fin(1, (x.n + x.d - 1) \div x.d, 1)
  ELSE Fin(-1, x.n \div x.d, 1)

\* Decimal.floor
DecFloor(x) ==
  IF x.k # "fin" THEN x
  ELSE IF x.s > 0 THEN Fin(1, x.n \div x.d, 1)
  ELSE Fin(-1, (x.n + x.d - 1) \div x.d, 1)

\* addFee with the rounding of subtractFee (floor instead of ceil)
addFeeFloor(amount, tradingFeePPM) ==
  DecFloor(DecDiv(DecTimes(amount, FromInt(PPM_RESOLUTION)),
                  FromInt(PPM_RESOLUTION - tradingFeePPM)))

addFee(amount, tradingFeePPM) ==
  DecCeil(DecDiv(DecTimes(amount, FromInt(PPM_RESOLUTION)),
                 FromInt(PPM_RESOLUTION - tradingFeePPM)))

\* subtractFee with the rounding of addFee (ceil instead of floor)
subtractFeeCeil(amount, tradingFeePPM) ==
  DecCeil(DecDiv(DecTimes(amount, FromInt(PPM_RESOLUTION - tradingFeePPM)),
                 FromInt(PPM_RESOLUTION)))

subtractFee(amount, tradingFeePPM) ==
  DecFloor(DecDiv(DecTimes(amount, FromInt(PPM_RESOLUTION - tradingFeePPM)),
                  FromInt(PPM_RESOLUTION)))

\* trading fees the fee functions are applied with, in PPM
Fees == {0, 1, 2000, 3000, 250000, 333333, 500000, 900000, 999999}

Idle == "idle"

InitFee ==
  /\ pc = "fee"
  /\ args \in [amount : 0..MaxAmount, tradingFeePPM : Fees]
  /\ cur = FromInt(args.amount)
  /\ ops = <<>>
  /\ strategy = Idle
  /\ lookups = <<>>
  /\ decimals0 = -1
  /\ decimals1 = -1
  /\ parsed = Idle
  /\ dist = Idle

\* one call of addFee on the current amount (amounts above MaxAmount are not grossed up again)
AddFee ==
  /\ pc = "fee"
  /\ Len(ops) < MaxOps
  /\ DecLeq(cur, FromInt(MaxAmount))
  /\ cur' = addFee(cur, args.tradingFeePPM)
  /\ ops' = Append(ops, "addFee")
  /\ UNCHANGED <<pc, args, strategy, lookups, decimals0, decimals1, parsed, dist>>

\* one call of subtractFee on the current amount
SubtractFee ==
  /\ pc = "fee"
  /\ Len(ops) < MaxOps
  /\ cur' = subtractFee(cur, args.tradingFeePPM)
  /\ ops' = Append(ops, "subtractFee")
  /\ UNCHANGED <<pc, args, strategy, lookups, decimals0, decimals1, parsed, dist>>

NextFee == AddFee \/ SubtractFee

SpecFee == InitFee /\ [][NextFee]_vars

\* C5: for every amount x >= 0 and fee 0 <= f < PPM_RESOLUTION,
\* subtractFee(addFee(x, f), f) >= x and addFee(subtractFee(x, f), f) <= x.
FeeBiasTowardProtocol ==
  /\ (pc = "fee" /\ ops = <<"addFee", "subtractFee">>) => DecLeq(FromInt(args.amount), cur)
  /\ (pc = "fee" /\ ops = <<"subtractFee", "addFee">>) => DecLeq(cur, FromInt(args.amount))

\* netting then grossing up 3 at a 50% fee gives 2: the composition is not the identity
FeeBiasWitness ==
  /\ pc = "fee"
  /\ ops = <<"subtractFee", "addFee">>
  /\ args.amount = 3
  /\ args.tradingFeePPM = 500000
  /\ cur = FromInt(2)

\* the gross amounts below g that are compared with it
GrossBelow(g) == (IF g > GWindow THEN g - GWindow ELSE 0)..(g - 1)

\* C9: addFee(amount, f) = ceil(amount * PPM / (PPM - f)), it nets to at least amount,
\* and every smaller gross amount nets to less than amount.
AddFeeIsMinimalGross ==
  (pc = "fee" /\ ops = <<"addFee">>) =>
    LET x == args.amount
        f == args.tradingFeePPM
        q == x * PPM_RESOLUTION
        m == PPM_RESOLUTION - f
    IN /\ cur.k = "fin" /\ cur.d = 1 /\ cur.s = 1
       /\ cur.n * m >= q
       /\ (cur.n - 1) * m < q
       /\ DecLeq(FromInt(x), subtractFee(cur, f))
       /\ \A g \in GrossBelow(cur.n) : DecLt(subtractFee(FromInt(g), f), FromInt(x))

\* the documented example: addFee(1000, 2000) = 1003
AddFeeExampleWitness ==
  /\ pc = "fee"
  /\ ops = <<"addFee">>
  /\ args.amount = 1000
  /\ args.tradingFeePPM = 2000
  /\ cur = FromInt(1003)

(***************************************************************************)
(* Rate normaliser.                                                        *)
(***************************************************************************)
normalizeRate(amount, amountTokenDecimals, otherTokenDecimals) ==
  DecTimes(amount, tenPow(amountTokenDecimals, otherTokenDecimals))

normalizeInvertedRate(amount, amountTokenDecimals, otherTokenDecimals) ==
  IF IsZero(amount) THEN Zero
  ELSE DecTimes(DecDiv(One, amount), tenPow(otherTokenDecimals, amountTokenDecimals))

(***************************************************************************)
(* Order builder.                                                          *)
(***************************************************************************)
NoOrder == [liquidity |-> -1, lowestRate |-> NaN, highestRate |-> NaN, marginalRate |-> NaN]

\* createOrders without the high/low swap of the inverted sell side
createOrdersNoSwap(baseTokenDecimals, quoteTokenDecimals, buyPriceLow, buyPriceMarginal, buyPriceHigh, buyBudget, sellPriceLow, sellPriceMarginal, sellPriceHigh, sellBudget) ==
  [order0 |->
     [liquidity    |-> parseUnits(sellBudget, baseTokenDecimals),
      lowestRate   |-> normalizeInvertedRate(sellPriceLow, quoteTokenDecimals, baseTokenDecimals),
      highestRate  |-> normalizeInvertedRate(sellPriceHigh, quoteTokenDecimals, baseTokenDecimals),
      marginalRate |-> normalizeInvertedRate(sellPriceMarginal, quoteTokenDecimals, baseTokenDecimals)],
   order1 |->
     [liquidity    |-> parseUnits(buyBudget, quoteTokenDecimals),
      lowestRate   |-> normalizeRate(buyPriceLow, quoteTokenDecimals, baseTokenDecimals),
      highestRate  |-> normalizeRate(buyPriceHigh, quoteTokenDecimals, baseTokenDecimals),
      marginalRate |-> normalizeRate(buyPriceMarginal, quoteTokenDecimals, baseTokenDecimals)]]

createOrders(baseTokenDecimals, quoteTokenDecimals, buyPriceLow, buyPriceMarginal, buyPriceHigh, buyBudget, sellPriceLow, sellPriceMarginal, sellPriceHigh, sellBudget) ==
  [order0 |->
     [liquidity    |-> parseUnits(sellBudget, baseTokenDecimals),
      lowestRate   |-> normalizeInvertedRate(sellPriceHigh, quoteTokenDecimals, baseTokenDecimals),
      highestRate  |-> normalizeInvertedRate(sellPriceLow, quoteTokenDecimals, baseTokenDecimals),
      marginalRate |-> normalizeInvertedRate(sellPriceMarginal, quoteTokenDecimals, baseTokenDecimals)],
   order1 |->
     [liquidity    |-> parseUnits(buyBudget, quoteTokenDecimals),
      lowestRate   |-> normalizeRate(buyPriceLow, quoteTokenDecimals, baseTokenDecimals),
      highestRate  |-> normalizeRate(buyPriceHigh, quoteTokenDecimals, baseTokenDecimals),
      marginalRate |-> normalizeRate(buyPriceMarginal, quoteTokenDecimals, baseTokenDecimals)]]

ErrNegativePrice == "prices cannot be negative"

ErrPriceOrdering == "low/marginal price must be lower than or equal to marginal/high price"

ErrNegativeBudget == "budgets cannot be negative"

\* a thrown Error: nothing is returned
Throw(message) ==
  [threw |-> TRUE, error |-> message, token0 |-> "", token1 |-> "",
   order0 |-> NoOrder, order1 |-> NoOrder]

\* the first condition of buildStrategyObject
AnyPriceNegative(buyPriceLow, buyPriceMarginal, buyPriceHigh, sellPriceLow, sellPriceMarginal, sellPriceHigh) ==
  \/ isNegative(buyPriceLow)
  \/ isNegative(buyPriceMarginal)
  \/ isNegative(buyPriceHigh)
  \/ isNegative(sellPriceLow)
  \/ isNegative(sellPriceMarginal)
  \/ isNegative(sellPriceHigh)

\* the second condition without its last comparison
PriceOrderViolatedNoSellHigh(buyPriceLow, buyPriceMarginal, buyPriceHigh, sellPriceLow, sellPriceMarginal, sellPriceHigh) ==
  \/ DecGt(buyPriceLow, buyPriceMarginal)
  \/ DecGt(buyPriceLow, buyPriceHigh)
  \/ DecGt(buyPriceMarginal, buyPriceHigh)
  \/ DecGt(sellPriceLow, sellPriceMarginal)
  \/ DecGt(sellPriceLow, sellPriceHigh)

\* the second condition of buildStrategyObject
PriceOrderViolated(buyPriceLow, buyPriceMarginal, buyPriceHigh, sellPriceLow, sellPriceMarginal, sellPriceHigh) ==
  \/ DecGt(buyPriceLow, buyPriceMarginal)
  \/ DecGt(buyPriceLow, buyPriceHigh)
  \/ DecGt(buyPriceMarginal, buyPriceHigh)
  \/ DecGt(sellPriceLow, sellPriceMarginal)
  \/ DecGt(sellPriceLow, sellPriceHigh)
  \/ DecGt(sellPriceMarginal, sellPriceHigh)

\* the third condition of buildStrategyObject
AnyBudgetNegative(buyBudget, sellBudget) ==
  isNegative(buyBudget) \/ isNegative(sellBudget)

\* buildStrategyObject with the budget check moved before the price checks
buildStrategyObjectBudgetFirst(baseToken, quoteToken, baseDecimals, quoteDecimals, buyPriceLow, buyPriceMarginal, buyPriceHigh, buyBudget, sellPriceLow, sellPriceMarginal, sellPriceHigh, sellBudget) ==
  IF AnyBudgetNegative(buyBudget, sellBudget)
  THEN Throw(ErrNegativeBudget)
  ELSE IF AnyPriceNegative(buyPriceLow, buyPriceMarginal, buyPriceHigh,
                           sellPriceLow, sellPriceMarginal, sellPriceHigh)
  THEN Throw(ErrNegativePrice)
  ELSE IF PriceOrderViolated(buyPriceLow, buyPriceMarginal, buyPriceHigh,
                             sellPriceLow, sellPriceMarginal, sellPriceHigh)
  THEN Throw(ErrPriceOrdering)
  ELSE LET o == createOrders(baseDecimals, quoteDecimals,
                             buyPriceLow, buyPriceMarginal, buyPriceHigh, buyBudget,
                             sellPriceLow, sellPriceMarginal, sellPriceHigh, sellBudget)
       IN [threw |-> FALSE, error |-> "", token0 |-> baseToken, token1 |-> quoteToken,
           order0 |-> o.order0, order1 |-> o.order1]

buildStrategyObject(baseToken, quoteToken, baseDecimals, quoteDecimals, buyPriceLow, buyPriceMarginal, buyPriceHigh, buyBudget, sellPriceLow, sellPriceMarginal, sellPriceHigh, sellBudget) ==
  IF AnyPriceNegative(buyPriceLow, buyPriceMarginal, buyPriceHigh,
                      sellPriceLow, sellPriceMarginal, sellPriceHigh)
  THEN Throw(ErrNegativePrice)
  ELSE IF PriceOrderViolated(buyPriceLow, buyPriceMarginal, buyPriceHigh,
                             sellPriceLow, sellPriceMarginal, sellPriceHigh)
  THEN Throw(ErrPriceOrdering)
  ELSE IF AnyBudgetNegative(buyBudget, sellBudget)
  THEN Throw(ErrNegativeBudget)
  ELSE LET o == createOrders(baseDecimals, quoteDecimals,
                             buyPriceLow, buyPriceMarginal, buyPriceHigh, buyBudget,
                             sellPriceLow, sellPriceMarginal, sellPriceHigh, sellBudget)
       IN [threw |-> FALSE, error |-> "", token0 |-> baseToken, token1 |-> quoteToken,
           order0 |-> o.order0, order1 |-> o.order1]

(***************************************************************************)
(* Strategy codec adapter: parseStrategy.                                  *)
(***************************************************************************)
NoStrategy ==
  [baseToken |-> "", quoteToken |-> "",
   buyPriceLow |-> NaN, buyPriceMarginal |-> NaN, buyPriceHigh |-> NaN, buyBudget |-> NaN,
   sellPriceLow |-> NaN, sellPriceMarginal |-> NaN, sellPriceHigh |-> NaN, sellBudget |-> NaN]

\* the Strategy parseStrategy returns once both decimals are known
parseStrategyReturn(s, d0, d1) ==
  [baseToken         |-> s.token0,
   quoteToken        |-> s.token1,
   buyPriceLow       |-> normalizeRate(s.order1.lowestRate, d0, d1),
   buyPriceMarginal  |-> normalizeRate(s.order1.marginalRate, d0, d1),
   buyPriceHigh      |-> normalizeRate(s.order1.highestRate, d0, d1),
   buyBudget         |-> formatUnits(s.order1.liquidity, d1),
   sellPriceLow      |-> normalizeInvertedRate(s.order0.highestRate, d1, d0),
   sellPriceMarginal |-> normalizeInvertedRate(s.order0.marginalRate, d1, d0),
   sellPriceHigh     |-> normalizeInvertedRate(s.order0.lowestRate, d1, d0),
   sellBudget        |-> formatUnits(s.order0.liquidity, d0)]

(***************************************************************************)
(* Build-then-parse pipeline: buildStrategyObject on human inputs, then    *)
(* parseStrategy on the strategy it returned (the order codec between the  *)
(* two is the identity), with the decimals resolver as the environment.    *)
(***************************************************************************)
Prices == { FromFrac(n, 2) : n \in -1..MaxPriceNum }

Budgets == { FromFrac(n, 2) : n \in -1..MaxBudgetNum }

LookupErrors == {"invalid address", "unreachable"}

\* the decimals the resolver knows for a token
DecimalsOf(token) ==
  IF token = args.baseToken THEN args.baseDecimals ELSE args.quoteDecimals

Init ==
  /\ pc = "build"
  /\ args \in [baseToken : {"base"}, quoteToken : {"quote"},
               baseDecimals : 0..MaxDecimals, quoteDecimals : 0..MaxDecimals,
               buyPriceLow : Prices, buyPriceMarginal : Prices, buyPriceHigh : Prices,
               buyBudget : Budgets,
               sellPriceLow : Prices, sellPriceMarginal : Prices, sellPriceHigh : Prices,
               sellBudget : Budgets]
  /\ strategy = Idle
  /\ lookups = <<>>
  /\ decimals0 = -1
  /\ decimals1 = -1
  /\ parsed = Idle
  /\ cur = Zero
  /\ ops = <<>>
  /\ dist = Idle

BuildStrategyObject ==
  /\ pc = "build"
  /\ strategy' = buildStrategyObject(args.baseToken, args.quoteToken,
                                     args.baseDecimals, args.quoteDecimals,
                                     args.buyPriceLow, args.buyPriceMarginal,
                                     args.buyPriceHigh, args.buyBudget,
                                     args.sellPriceLow, args.sellPriceMarginal,
                                     args.sellPriceHigh, args.sellBudget)
  /\ pc' = IF strategy'.threw THEN "buildFailed" ELSE "built"
  /\ UNCHANGED <<args, lookups, decimals0, decimals1, parsed, cur, ops, dist>>

\* parseStrategy up to its first await: fetchDecimals(token0) is issued
ParseStrategy ==
  /\ pc = "built"
  /\ lookups' = <<[token |-> strategy.token0, result |-> "pending"]>>
  /\ pc' = "await0"
  /\ UNCHANGED <<args, strategy, decimals0, decimals1, parsed, cur, ops, dist>>

\* a rejected first lookup that is replaced by a default of 0 decimals
Fetch0RejectSwallowed ==
  /\ pc = "await0"
  /\ \E e \in LookupErrors :
       lookups' = <<[lookups[1] EXCEPT !.result = e],
                    [token |-> strategy.token1, result |-> "pending"]>>
  /\ decimals0' = 0
  /\ pc' = "await1"
  /\ UNCHANGED <<args, strategy, decimals1, parsed, cur, ops, dist>>

\* the first lookup resolves: decimals0 is bound and fetchDecimals(token1) is issued
Fetch0Resolve ==
  /\ pc = "await0"
  /\ decimals0' = DecimalsOf(strategy.token0)
  /\ lookups' = <<[lookups[1] EXCEPT !.result = "ok"],
                  [token |-> strategy.token1, result |-> "pending"]>>
  /\ pc' = "await1"
  /\ UNCHANGED <<args, strategy, decimals1, parsed, cur, ops, dist>>

\* the first lookup rejects: the await throws and parseStrategy rejects with that error
Fetch0Reject ==
  /\ pc = "await0"
  /\ \E e \in LookupErrors :
       /\ lookups' = <<[lookups[1] EXCEPT !.result = e]>>
       /\ parsed' = [threw |-> TRUE, error |-> e, strategy |-> NoStrategy]
  /\ pc' = "parseFailed"
  /\ UNCHANGED <<args, strategy, decimals0, decimals1, cur, ops, dist>>

\* the second lookup resolves: the Strategy is computed and returned
Fetch1Resolve ==
  /\ pc = "await1"
  /\ decimals1' = DecimalsOf(strategy.token1)
  /\ lookups' = [lookups EXCEPT ![2].result = "ok"]
  /\ parsed' = [threw |-> FALSE, error |-> "",
                strategy |-> parseStrategyReturn(strategy, decimals0, decimals1')]
  /\ pc' = "parsed"
  /\ UNCHANGED <<args, strategy, decimals0, cur, ops, dist>>

\* the second lookup rejects
Fetch1Reject ==
  /\ pc = "await1"
  /\ \E e \in LookupErrors :
       /\ lookups' = [lookups EXCEPT ![2].result = e]
       /\ parsed' = [threw |-> TRUE, error |-> e, strategy |-> NoStrategy]
  /\ pc' = "parseFailed"
  /\ UNCHANGED <<args, strategy, decimals0, decimals1, cur, ops, dist>>

Next ==
  \/ BuildStrategyObject
  \/ ParseStrategy
  \/ Fetch0Resolve
  \/ Fetch0Reject
  \/ Fetch1Resolve
  \/ Fetch1Reject

Spec == Init /\ [][Next]_vars

(***************************************************************************)
(* Properties of the order builder.                                        *)
(***************************************************************************)
BuildReturned == pc \notin {"build", "fee", "solve", "solved"}

\* the conditions on the inputs, stated on their numeric values
SomePriceBelowZero ==
  \E p \in {args.buyPriceLow, args.buyPriceMarginal, args.buyPriceHigh,
            args.sellPriceLow, args.sellPriceMarginal, args.sellPriceHigh} : DecLt(p, Zero)

SomeSideOutOfOrder ==
  \/ DecLt(args.buyPriceMarginal, args.buyPriceLow)
  \/ DecLt(args.buyPriceHigh, args.buyPriceMarginal)
  \/ DecLt(args.buyPriceHigh, args.buyPriceLow)
  \/ DecLt(args.sellPriceMarginal, args.sellPriceLow)
  \/ DecLt(args.sellPriceHigh, args.sellPriceMarginal)
  \/ DecLt(args.sellPriceHigh, args.sellPriceLow)

SomeBudgetBelowZero == DecLt(args.buyBudget, Zero) \/ DecLt(args.sellBudget, Zero)

NoOrdersBuilt == strategy.threw /\ strategy.order0 = NoOrder /\ strategy.order1 = NoOrder

\* C1: the checks run in the order price sign, price ordering, budget sign: the error
\* raised is the one of the earliest violated check, and orders are built (createOrders
\* is called) only when all three checks pass.
ValidationOrder ==
  BuildReturned =>
    /\ SomePriceBelowZero => (NoOrdersBuilt /\ strategy.error = ErrNegativePrice)
    /\ (~SomePriceBelowZero /\ SomeSideOutOfOrder) =>
         (NoOrdersBuilt /\ strategy.error = ErrPriceOrdering)
    /\ (~SomePriceBelowZero /\ ~SomeSideOutOfOrder /\ SomeBudgetBelowZero) =>
         (NoOrdersBuilt /\ strategy.error = ErrNegativeBudget)
    /\ (strategy.order0 # NoOrder \/ strategy.order1 # NoOrder) =>
         (~strategy.threw /\ ~SomePriceBelowZero /\ ~SomeSideOutOfOrder /\ ~SomeBudgetBelowZero)

\* an input violating all three checks fails with the price-sign error
ValidationOrderWitness ==
  /\ pc = "buildFailed"
  /\ SomePriceBelowZero
  /\ SomeSideOutOfOrder
  /\ SomeBudgetBelowZero
  /\ strategy.error = ErrNegativePrice

RatesOrdered(o) ==
  /\ DecLeq(Zero, o.lowestRate)
  /\ DecLeq(o.lowestRate, o.marginalRate)
  /\ DecLeq(o.marginalRate, o.highestRate)

\* C2: whenever buildStrategyObject succeeds, both orders satisfy
\* 0 <= lowestRate <= marginalRate <= highestRate, sell prices of zero included.
OrdersRatesOrdered ==
  (BuildReturned /\ ~strategy.threw) =>
    (RatesOrdered(strategy.order0) /\ RatesOrdered(strategy.order1))

\* C7 as stated: each error kind is raised exactly when its own condition holds.
ErrorKindIffOwnCondition ==
  BuildReturned =>
    /\ (strategy.threw /\ strategy.error = ErrNegativePrice) <=> SomePriceBelowZero
    /\ (strategy.threw /\ strategy.error = ErrPriceOrdering) <=> SomeSideOutOfOrder
    /\ (strategy.threw /\ strategy.error = ErrNegativeBudget) <=> SomeBudgetBelowZero
    /\ ~strategy.threw <=>
         (~SomePriceBelowZero /\ ~SomeSideOutOfOrder /\ ~SomeBudgetBelowZero)

\* C7 amended: InvalidPrice iff some price is negative; InvalidPriceOrdering iff no price
\* is negative and some side is out of order; InvalidBudget iff neither holds and some
\* budget is negative; success in every other case.
ErrorKindIffFirstViolated ==
  BuildReturned =>
    /\ (strategy.threw /\ strategy.error = ErrNegativePrice) <=> SomePriceBelowZero
    /\ (strategy.threw /\ strategy.error = ErrPriceOrdering) <=>
         (~SomePriceBelowZero /\ SomeSideOutOfOrder)
    /\ (strategy.threw /\ strategy.error = ErrNegativeBudget) <=>
         (~SomePriceBelowZero /\ ~SomeSideOutOfOrder /\ SomeBudgetBelowZero)
    /\ ~strategy.threw <=>
         (~SomePriceBelowZero /\ ~SomeSideOutOfOrder /\ ~SomeBudgetBelowZero)

\* an ordering error raised although a budget is negative as well
ErrorKindWitness ==
  /\ pc = "buildFailed"
  /\ strategy.error = ErrPriceOrdering
  /\ DecLt(args.sellPriceHigh, args.sellPriceMarginal)
  /\ SomeBudgetBelowZero

(***************************************************************************)
(* Properties of parseStrategy.                                            *)
(***************************************************************************)
PricesRecovered ==
  /\ DecEq(parsed.strategy.buyPriceLow, args.buyPriceLow)
  /\ DecEq(parsed.strategy.buyPriceMarginal, args.buyPriceMarginal)
  /\ DecEq(parsed.strategy.buyPriceHigh, args.buyPriceHigh)
  /\ DecEq(parsed.strategy.sellPriceLow, args.sellPriceLow)
  /\ DecEq(parsed.strategy.sellPriceMarginal, args.sellPriceMarginal)
  /\ DecEq(parsed.strategy.sellPriceHigh, args.sellPriceHigh)

\* `got` is `budget` cut to `decimals` fractional digits: a multiple of 10^-decimals,
\* not above budget and less than 10^-decimals below it
CutToDecimals(got, budget, decimals) ==
  /\ got.k = "fin"
  /\ (got.n * Pow10(decimals)) % got.d = 0
  /\ DecLeq(got, budget)
  /\ DecLt(DecMinus(budget, got), tenPow(0, decimals))

Rejected(l) == l.result \notin {"pending", "ok"}

\* C8: a failed decimals lookup fails the whole parseStrategy call with that lookup's
\* error and no Strategy is returned; no lookup follows the failed one, and each token
\* is looked up at most once per call.
LookupFailureAborts ==
  /\ \A i, j \in 1..Len(lookups) : lookups[i].token = lookups[j].token => i = j
  /\ \A i \in 1..Len(lookups) :
       Rejected(lookups[i]) =>
         /\ pc = "parseFailed"
         /\ i = Len(lookups)
         /\ parsed.threw
         /\ parsed.error = lookups[i].result
         /\ parsed.strategy = NoStrategy
  /\ pc = "parsed" =>
       /\ ~parsed.threw
       /\ Len(lookups) = 2
       /\ \A i \in 1..2 : lookups[i].result = "ok"

\* the second lookup failed after the first one succeeded
LookupFailureWitness ==
  /\ pc = "parseFailed"
  /\ Len(lookups) = 2
  /\ lookups[1].result = "ok"
  /\ lookups[2].result = "unreachable"
  /\ parsed.error = "unreachable"

(***************************************************************************)
(* Overlapping distribution solver.                                        *)
(***************************************************************************)
\* buyLowRange without the half-spread correction
buyLowRangeNoHalfSpread(marketPriceDec, buyPriceLowDec, spread) ==
  DecMinus(marketPriceDec, buyPriceLowDec)

\* const buyLowRange = marketPriceDec.minus(buyPriceLowDec).minus(spread.div(2))
buyLowRangeOf(marketPriceDec, buyPriceLowDec, spread) ==
  DecMinus(DecMinus(marketPriceDec, buyPriceLowDec), DecDiv(spread, FromInt(2)))

\* the function has no throw statement: it returns for every input, `raw` holding its
\* values before trimDecimal
calculateOverlappingDistribution(baseTokenDecimals, quoteTokenDecimals, buyPriceLow, sellPriceHigh, marketPrice, spreadPercentage, buyBudget) ==
  LET sellPriceHighDec    == sellPriceHigh
      buyPriceLowDec      == buyPriceLow
      marketPriceDec      == marketPrice
      totalPriceRange     == DecMinus(sellPriceHighDec, buyPriceLowDec)
      spread              == DecDiv(DecTimes(totalPriceRange, spreadPercentage), FromInt(100))
      buyPriceHigh        == DecMinus(sellPriceHighDec, spread)
      sellPriceLow        == DecPlus(buyPriceLowDec, spread)
      buyPriceRange       == DecMinus(buyPriceHigh, buyPriceLowDec)
      sellPriceRange      == DecMinus(sellPriceHighDec, sellPriceLow)
      buyLowRange         == buyLowRangeOf(marketPriceDec, buyPriceLowDec, spread)
      buyLowBudgetRatio   == DecDiv(buyLowRange, buyPriceRange)
      buyOrderYint        == DecDiv(buyBudget, buyLowBudgetRatio)
      buyPriceMarginal    == DecPlus(buyPriceLowDec, DecTimes(buyPriceRange, buyLowBudgetRatio))
      geoMean             == DecSqrt(DecTimes(buyPriceLowDec, sellPriceHighDec))
      sellOrderYint       == DecDiv(buyOrderYint, geoMean)
      sellHighBudgetRatio == DecMinus(One, buyLowBudgetRatio)
      sellBudget          == DecTimes(sellOrderYint, sellHighBudgetRatio)
      sellPriceMarginal   == DecMinus(sellPriceHighDec,
                                      DecTimes(sellPriceRange, sellHighBudgetRatio))
  IN [threw             |-> FALSE,
      error             |-> "",
      buyPriceHigh      |-> trimDecimal(buyPriceHigh, quoteTokenDecimals),
      buyPriceMarginal  |-> trimDecimal(buyPriceMarginal, quoteTokenDecimals),
      sellPriceLow      |-> trimDecimal(sellPriceLow, quoteTokenDecimals),
      sellPriceMarginal |-> trimDecimal(sellPriceMarginal, quoteTokenDecimals),
      sellBudget        |-> trimDecimal(sellBudget, baseTokenDecimals),
      raw |-> [spread |-> spread, buyPriceRange |-> buyPriceRange,
               buyPriceHigh |-> buyPriceHigh, sellPriceLow |-> sellPriceLow,
               buyPriceMarginal |-> buyPriceMarginal,
               sellPriceMarginal |-> sellPriceMarginal,
               buyLowBudgetRatio |-> buyLowBudgetRatio, sellBudget |-> sellBudget]]

OuterPrices == { FromInt(n) : n \in 0..MaxOuterPrice }

SpreadPercentages == { FromInt(n) : n \in {0, 10, 50, 100, 150} }

SolverBudgets == { FromInt(n) : n \in 0..MaxSolverBudget }

InitSolver ==
  /\ pc = "solve"
  /\ args \in [baseTokenDecimals : 0..MaxDecimals, quoteTokenDecimals : 0..MaxDecimals,
               buyPriceLow : OuterPrices, sellPriceHigh : OuterPrices,
               marketPrice : OuterPrices, spreadPercentage : SpreadPercentages,
               buyBudget : SolverBudgets]
  /\ dist = Idle
  /\ strategy = Idle
  /\ lookups = <<>>
  /\ decimals0 = -1
  /\ decimals1 = -1
  /\ parsed = Idle
  /\ cur = Zero
  /\ ops = <<>>

CalculateOverlappingDistribution ==
  /\ pc = "solve"
  /\ dist' = calculateOverlappingDistribution(args.baseTokenDecimals, args.quoteTokenDecimals,
                                              args.buyPriceLow, args.sellPriceHigh,
                                              args.marketPrice, args.spreadPercentage,
                                              args.buyBudget)
  /\ pc' = "solved"
  /\ UNCHANGED <<args, strategy, lookups, decimals0, decimals1, parsed, cur, ops>>

NextSolver == CalculateOverlappingDistribution

SpecSolver == InitSolver /\ [][NextSolver]_vars

(***************************************************************************)
(* Properties of the solver.                                               *)
(***************************************************************************)
Degenerate ==
  \/ DecEq(args.spreadPercentage, FromInt(100))
  \/ DecEq(args.buyPriceLow, args.sellPriceHigh)

\* C3: with spreadPercentage = 100 or buyPriceLow = sellPriceHigh the call fails with a
\* DegenerateRange error and returns no result.
DegenerateRangeRejected ==
  (pc = "solved" /\ Degenerate) => (dist.threw /\ dist.error = "DegenerateRange")

\* C4: for 0 < buyPriceLow < sellPriceHigh, 0 <= spreadPercentage < 100,
\* buyPriceLow <= marketPrice <= sellPriceHigh and buyBudget >= 0 the outputs satisfy
\* buyPriceLow <= sellPriceLow <= sellPriceMarginal <= sellPriceHigh,
\* buyPriceLow <= buyPriceMarginal <= buyPriceHigh <= sellPriceHigh and sellBudget >= 0.
SolverOutputsOrdered ==
  ( /\ pc = "solved"
    /\ DecLt(Zero, args.buyPriceLow)
    /\ DecLt(args.buyPriceLow, args.sellPriceHigh)
    /\ DecLeq(Zero, args.spreadPercentage)
    /\ DecLt(args.spreadPercentage, FromInt(100))
    /\ DecLeq(args.buyPriceLow, args.marketPrice)
    /\ DecLeq(args.marketPrice, args.sellPriceHigh)
    /\ DecLeq(Zero, args.buyBudget) ) =>
    /\ DecLeq(args.buyPriceLow, dist.sellPriceLow)
    /\ DecLeq(dist.sellPriceLow, dist.sellPriceMarginal)
    /\ DecLeq(dist.sellPriceMarginal, args.sellPriceHigh)
    /\ DecLeq(args.buyPriceLow, dist.buyPriceMarginal)
    /\ DecLeq(dist.buyPriceMarginal, dist.buyPriceHigh)
    /\ DecLeq(dist.buyPriceHigh, args.sellPriceHigh)
    /\ DecLeq(Zero, dist.sellBudget)

\* the spread of the inputs, from its definition
SpreadOfArgs ==
  DecDiv(DecTimes(DecMinus(args.sellPriceHigh, args.buyPriceLow), args.spreadPercentage),
         FromInt(100))

HalfSpreadOfArgs == DecDiv(SpreadOfArgs, FromInt(2))

\* C10: for every non-degenerate input, before trimming, buyPriceMarginal is
\* marketPrice - spread/2 and sellPriceMarginal is marketPrice + spread/2, so that
\* sellPriceMarginal - buyPriceMarginal = spread = sellPriceLow - buyPriceLow
\* = sellPriceHigh - buyPriceHigh, whatever buyBudget is; a marginal price equals
\* marketPrice only when the spread is 0.
MarginalsStraddleMarket ==
  (pc = "solved" /\ ~Degenerate) =>
    /\ DecEq(dist.raw.buyPriceMarginal, DecMinus(args.marketPrice, HalfSpreadOfArgs))
    /\ DecEq(dist.raw.sellPriceMarginal, DecPlus(args.marketPrice, HalfSpreadOfArgs))
    /\ DecEq(DecMinus(dist.raw.sellPriceMarginal, dist.raw.buyPriceMarginal), SpreadOfArgs)
    /\ DecEq(DecMinus(dist.raw.sellPriceLow, args.buyPriceLow), SpreadOfArgs)
    /\ DecEq(DecMinus(args.sellPriceHigh, dist.raw.buyPriceHigh), SpreadOfArgs)
    /\ (DecEq(dist.raw.buyPriceMarginal, args.marketPrice) => IsZero(SpreadOfArgs))
    /\ (DecEq(dist.raw.sellPriceMarginal, args.marketPrice) => IsZero(SpreadOfArgs))

\* a centred market price with a non-zero spread and a non-zero budget
MarginalsStraddleWitness ==
  /\ pc = "solved"
  /\ args.buyPriceLow = FromInt(1)
  /\ args.sellPriceHigh = FromInt(3)
  /\ args.marketPrice = FromInt(2)
  /\ args.spreadPercentage = FromInt(50)
  /\ args.buyBudget = FromInt(1)
  /\ dist.raw.buyPriceMarginal = FromFrac(3, 2)
  /\ dist.raw.sellPriceMarginal = FromFrac(5, 2)

=============================================================================
